---------------------------- MODULE Spec2Model ----------------------------
(***************************************************************************)
(* Model of backend/models/wait_times.py.                                  *)
(*                                                                         *)
(* Part 1: the WaitTimeStats object (construction and its queries).        *)
(* Part 2: get_cached_wait_times, the cache-then-fetch retrieval.          *)
(*                                                                         *)
(* Python floats are modelled as exact rationals <<numerator,              *)
(* denominator>> in lowest terms, so "x / 60" is the rational x/60 and     *)
(* rounding is left out.  A value that may be None is the empty set (None) *)
(* or the singleton of the value.  Array indexes are 0-based as in the     *)
(* source; TLA+ sequences are 1-based, hence the "+ 1" where an array is   *)
(* indexed.                                                                *)
(***************************************************************************)
EXTENDS Integers, Sequences, FiniteSets, TLC

VARIABLES
    time_values,   \* argument of get_stats: the ascending arrival series
    start_time,    \* argument of get_stats: an integer or None
    end_time,      \* argument of get_stats: an integer or None
    stats,         \* the WaitTimeStats object get_stats returned, a record of its attributes
    call,          \* the last method called on stats and its argument
    result,        \* what that call returned (or the fault it raised)
    pc,            \* position inside get_cached_wait_times
    args,          \* arguments of the running get_cached_wait_times call
    cache_path,    \* local variable cache_path of that call
    response,      \* local variable r: the remote response
    files,         \* the local data directory: path -> text of the file
    trace,         \* file and network accesses of the running call, in order
    outcome,       \* how the last call ended
    served         \* argument tuples for which a call has returned successfully

statsVars == <<time_values, start_time, end_time, stats, call, result>>
cacheVars == <<pc, args, cache_path, response, files, trace, outcome, served>>
vars == <<time_values, start_time, end_time, stats, call, result,
          pc, args, cache_path, response, files, trace, outcome, served>>

\* Python's None and a value that may be None: the empty set, or the set of the value
None == {}
Some(x) == {x}
Val(o) == CHOOSE x \in o : TRUE

\* What a call produced: the value it returned (None included), or the exception it raised
Return(v) == [raised |-> "", value |-> Some(v)]
ReturnNone == [raised |-> "", value |-> None]
Raise(e) == [raised |-> e, value |-> None]

(***************************************************************************)
(* Bounds of the model.                                                    *)
(***************************************************************************)
MaxTime == 3
MaxLen == 3
MaxStep == 2

(***************************************************************************)
(* Exact rational arithmetic standing for Python float arithmetic.         *)
(***************************************************************************)
Abs(x) == IF x < 0 THEN -x ELSE x

RECURSIVE GCD(_, _)
GCD(a, b) == IF b = 0 THEN a ELSE GCD(b, a % b)

Rat(n, d) ==
    LET g == GCD(Abs(n), Abs(d))
        s == IF d < 0 THEN -1 ELSE 1
    IN  <<(s * n) \div g, (s * d) \div g>>

RatAdd(a, b) == Rat(a[1] * b[2] + b[1] * a[2], a[2] * b[2])
RatSub(a, b) == Rat(a[1] * b[2] - b[1] * a[2], a[2] * b[2])
RatMul(a, b) == Rat(a[1] * b[1], a[2] * b[2])
RatDiv(a, b) == Rat(a[1] * b[2], a[2] * b[1])
RatLT(a, b) == a[1] * b[2] < b[1] * a[2]
RatLE(a, b) == a[1] * b[2] <= b[1] * a[2]
Int2Rat(n) == <<n, 1>>

Min2(a, b) == IF a <= b THEN a ELSE b
Max2(a, b) == IF a >= b THEN a ELSE b
Last(s) == s[Len(s)]

RECURSIVE SumSeq(_)
SumSeq(s) == IF s = <<>> THEN 0 ELSE s[1] + SumSeq(Tail(s))

SecondsPerMinute == 60

(***************************************************************************)
(* numpy helpers.                                                          *)
(***************************************************************************)
\* np.min / np.max of a sequence of integers
NpMin(a) == CHOOSE x \in {a[i] : i \in 1..Len(a)} : \A j \in 1..Len(a) : x <= a[j]
NpMax(a) == CHOOSE x \in {a[i] : i \in 1..Len(a)} : \A j \in 1..Len(a) : x >= a[j]

\* np.searchsorted(a, v, side='right')
SearchSortedRight(a, v) == Cardinality({i \in 1..Len(a) : a[i] <= v})

\* np.searchsorted(a, v, side='left') on a sorted array of integers: 0-based insertion index
SearchSortedLeft(a, v) == Cardinality({i \in 1..Len(a) : a[i] < v})

\* np.diff(a, prepend=p)
RECURSIVE NpDiffPrepend(_, _)
NpDiffPrepend(a, p) ==
    IF a = <<>> THEN <<>> ELSE <<a[1] - p>> \o NpDiffPrepend(Tail(a), a[1])

\* np.sort
NpSort(a) == SortSeq(a, LAMBDA x, y : x < y)

\* np.arange(start, stop, step) for step > 0
NpArange(start, stop, step) ==
    LET n == IF stop <= start THEN 0 ELSE ((stop - start) + (step - 1)) \div step
    IN  [k \in 1..n |-> start + (k - 1) * step]

(***************************************************************************)
(* WaitTimeStats.__init__                                                  *)
(***************************************************************************)
\* IntervalStart without the clip to the first arrival
IntervalStartUnclipped(tv, st) ==
    IF st # None THEN Val(st) ELSE NpMin(tv)

\* lines 116-118
IntervalStart(tv, st) ==
    IF st # None THEN Max2(NpMin(tv), Val(st)) ELSE NpMin(tv)

\* IntervalEnd without the clip to the last arrival
IntervalEndUnclipped(tv, et, interval_start) ==
    Max2(IF et # None THEN Val(et) ELSE NpMax(tv), interval_start)

\* lines 120-123
IntervalEnd(tv, et, interval_start) ==
    Max2(IF et # None THEN Min2(NpMax(tv), Val(et)) ELSE NpMax(tv), interval_start)

\* time_values[start_arrival_index:end_arrival_index]
Slice(a, lo, hi) == [i \in 1..(hi - lo) |-> a[lo + i]]

\* The object __init__ leaves behind, as a record of its attributes; a record
\* with the single field raised when __init__ raises instead.
WaitTimeStats(tv, st, et) ==
    IF Len(tv) = 0 THEN [time_values |-> tv, is_empty |-> TRUE]
    ELSE
    LET interval_start == IntervalStart(tv, st)
        interval_end == IntervalEnd(tv, et, interval_start)
        start_arrival_index == SearchSortedLeft(tv, interval_start)
        end_arrival_index == SearchSortedLeft(tv, interval_end)
        has_slice == end_arrival_index > start_arrival_index
        interval_time_values ==
            IF has_slice THEN Slice(tv, start_arrival_index, end_arrival_index) ELSE <<>>
        interval_headways ==
            IF has_slice THEN NpDiffPrepend(interval_time_values, interval_start) ELSE <<>>
        end_elapsed_time ==
            IF has_slice THEN interval_end - Last(interval_time_values)
            ELSE interval_end - interval_start
        has_next == end_arrival_index < Len(tv)
        end_wait_time ==
            IF has_next THEN Some(tv[end_arrival_index + 1] - interval_end) ELSE None
        revise == ~has_next /\ end_elapsed_time > 0
        final_end == IF revise THEN Last(interval_time_values) ELSE interval_end
    IN  IF revise /\ interval_time_values = <<>>
        THEN [raised |-> "IndexError"]     \* line 146: [-1] of an empty array
        ELSE [time_values |-> tv,
              is_empty |-> (final_end - interval_start) <= 0,
              cdf_points |-> None,
              interval_start |-> interval_start,
              interval_end |-> final_end,
              start_arrival_index |-> start_arrival_index,
              end_arrival_index |-> end_arrival_index,
              interval_time_values |-> interval_time_values,
              interval_headways |-> interval_headways,
              end_elapsed_time |-> IF revise THEN 0 ELSE end_elapsed_time,
              end_wait_time |-> end_wait_time]

Constructed(self) == "is_empty" \in DOMAIN self

(***************************************************************************)
(* WaitTimeStats.get_average                                               *)
(***************************************************************************)
Squares(s) == [i \in 1..Len(s) |-> s[i] * s[i]]

\* get_average without the rectangle of the tail
get_average_no_rectangle(self) ==
    IF self.is_empty THEN ReturnNone
    ELSE
    LET triangles == Rat(SumSeq(Squares(self.interval_headways)), 2)
        tail ==
            IF self.end_wait_time # None
            THEN Rat(self.end_elapsed_time * self.end_elapsed_time, 2)
            ELSE Int2Rat(0)
    IN  Return(RatDiv(RatDiv(RatAdd(triangles, tail),
                             Int2Rat(self.interval_end - self.interval_start)),
                      Int2Rat(SecondsPerMinute)))

get_average(self) ==
    IF self.is_empty THEN ReturnNone
    ELSE
    LET triangles ==
            IF Len(self.interval_headways) > 0
            THEN Rat(SumSeq(Squares(self.interval_headways)), 2)
            ELSE Int2Rat(0)
        tail ==
            IF self.end_wait_time # None
            THEN RatAdd(Int2Rat(Val(self.end_wait_time) * self.end_elapsed_time),
                        Rat(self.end_elapsed_time * self.end_elapsed_time, 2))
            ELSE Int2Rat(0)
        total_wait == RatAdd(triangles, tail)
        interval_elapsed_time == self.interval_end - self.interval_start
    IN  Return(RatDiv(RatDiv(total_wait, Int2Rat(interval_elapsed_time)),
                      Int2Rat(SecondsPerMinute)))

(***************************************************************************)
(* WaitTimeStats.get_cumulative_distribution                               *)
(***************************************************************************)
\* lines 190-200: the breakpoints, None when no CDF can be built
WaitTimeValues(self) ==
    LET has_arrival == Len(self.interval_headways) > 0
    IN  IF self.end_wait_time # None
        THEN Some(self.interval_headways
                  \o <<Val(self.end_wait_time),
                       Val(self.end_wait_time) + self.end_elapsed_time>>
                  \o (IF has_arrival THEN <<0>> ELSE <<>>))
        ELSE IF has_arrival THEN Some(<<0>> \o self.interval_headways)
        ELSE None

\* TailAdjustment with "<" for "<="
TailAdjustmentStrict(end_wait_time, wait_time) ==
    IF end_wait_time # None /\ wait_time < Val(end_wait_time) THEN 2 ELSE 0

\* TailAdjustment that leaves out one tail breakpoint only
TailAdjustmentOne(end_wait_time, wait_time) ==
    IF end_wait_time # None /\ wait_time <= Val(end_wait_time) THEN 1 ELSE 0

\* lines 221-225: how many of the remaining breakpoints are the two tail breakpoints
TailAdjustment(end_wait_time, wait_time) ==
    IF end_wait_time # None /\ wait_time <= Val(end_wait_time) THEN 2 ELSE 0

\* lines 216-237: the loop, from index i on; prev_wait_time is None or the last emitted wait
RECURSIVE CdfLoop(_, _, _, _, _, _, _)
CdfLoop(sorted, i, prev_wait_time, tot_elapsed, points, end_wait_time, interval_elapsed_time) ==
    IF i >= Len(sorted) THEN points
    ELSE
    LET wait_time == sorted[i + 1]
    IN  IF prev_wait_time = None \/ wait_time > Val(prev_wait_time)
        THEN LET num == (Len(sorted) - i) - TailAdjustment(end_wait_time, wait_time)
                 elapsed == IF prev_wait_time = None THEN 0
                            ELSE (wait_time - Val(prev_wait_time)) * num
                 tot == tot_elapsed + elapsed
                 point == <<Rat(wait_time, SecondsPerMinute), Rat(tot, interval_elapsed_time)>>
             IN  CdfLoop(sorted, i + 1, Some(wait_time), tot, Append(points, point),
                         end_wait_time, interval_elapsed_time)
        ELSE CdfLoop(sorted, i + 1, prev_wait_time, tot_elapsed, points,
                     end_wait_time, interval_elapsed_time)

\* lines 176-237: the points the loop builds from the object's attributes
CdfPoints(self) ==
    CdfLoop(NpSort(Val(WaitTimeValues(self))), 0, None, 0, <<>>,
            self.end_wait_time, self.interval_end - self.interval_start)

\* What get_cumulative_distribution returns
get_cumulative_distribution(self) ==
    IF self.is_empty THEN ReturnNone
    ELSE IF self.cdf_points # None THEN Return(Val(self.cdf_points))
    ELSE IF WaitTimeValues(self) = None THEN ReturnNone
    ELSE LET points == CdfPoints(self)
         IN  IF Last(points)[2] # Int2Rat(1) \/ points[1][2] # Int2Rat(0)
             THEN Raise("AssertionError")
             ELSE Return(points)

\* The object after get_cumulative_distribution: line 254 memoizes the points
Memoized(self) ==
    LET r == get_cumulative_distribution(self)
    IN  IF r.raised = "" /\ r.value # None
        THEN [self EXCEPT !.cdf_points = r.value]
        ELSE self

CdfDomain(cdf_points) == [i \in 1..Len(cdf_points) |-> cdf_points[i][1]]
CdfRange(cdf_points) == [i \in 1..Len(cdf_points) |-> cdf_points[i][2]]

\* np.searchsorted(a, v) on a sorted array of floats
SearchSortedRat(a, v) == Cardinality({i \in 1..Len(a) : RatLT(a[i], v)})

(***************************************************************************)
(* WaitTimeStats.get_quantiles, get_percentiles                            *)
(***************************************************************************)
\* QuantileValue without the interpolation: the end of the segment
QuantileValueSegmentEnd(cdf_domain, cdf_range, quantile) ==
    cdf_domain[Min2(SearchSortedRat(cdf_range, quantile), Len(cdf_domain) - 1) + 1]

\* lines 268-278: one quantile; "IndexError" when the index runs off the array
QuantileValue(cdf_domain, cdf_range, quantile) ==
    LET segment_end_index == SearchSortedRat(cdf_range, quantile)
        segment_start_index == segment_end_index - 1
    IN  IF segment_end_index = 0 THEN cdf_domain[1]
        ELSE IF segment_end_index >= Len(cdf_range) THEN "IndexError"
        ELSE RatAdd(cdf_domain[segment_start_index + 1],
                    RatMul(RatDiv(RatSub(quantile, cdf_range[segment_start_index + 1]),
                                  RatSub(cdf_range[segment_end_index + 1],
                                         cdf_range[segment_start_index + 1])),
                           RatSub(cdf_domain[segment_end_index + 1],
                                  cdf_domain[segment_start_index + 1])))

get_quantiles(self, quantiles) ==
    LET r == get_cumulative_distribution(self)
    IN  IF r.raised # "" \/ r.value = None THEN r
        ELSE LET cdf_domain == CdfDomain(Val(r.value))
                 cdf_range == CdfRange(Val(r.value))
                 overrun == \E k \in 1..Len(quantiles) :
                                SearchSortedRat(cdf_range, quantiles[k]) >= Len(cdf_range)
             IN  IF overrun THEN Raise("IndexError")
                 ELSE Return([k \in 1..Len(quantiles) |->
                                 QuantileValue(cdf_domain, cdf_range, quantiles[k])])

get_percentiles(self, percentiles) ==
    get_quantiles(self, [k \in 1..Len(percentiles) |-> Rat(percentiles[k], 100)])

(***************************************************************************)
(* WaitTimeStats.get_probability_less_than / greater_than, get_histogram   *)
(***************************************************************************)
\* lines 321-335
ProbabilityLessThan(wait_time, cdf_domain, cdf_range) ==
    LET segment_end_index == SearchSortedRat(cdf_domain, wait_time)
        segment_start_index == segment_end_index - 1
    IN  IF segment_end_index >= Len(cdf_domain) THEN Int2Rat(1)
        ELSE IF segment_end_index = 0 THEN Int2Rat(0)
        ELSE RatAdd(cdf_range[segment_start_index + 1],
                    RatMul(RatDiv(RatSub(wait_time, cdf_domain[segment_start_index + 1]),
                                  RatSub(cdf_domain[segment_end_index + 1],
                                         cdf_domain[segment_start_index + 1])),
                           RatSub(cdf_range[segment_end_index + 1],
                                  cdf_range[segment_start_index + 1])))

get_probability_less_than(self, wait_time) ==
    LET r == get_cumulative_distribution(self)
    IN  IF r.raised # "" \/ r.value = None THEN r
        ELSE Return(ProbabilityLessThan(wait_time, CdfDomain(Val(r.value)),
                                        CdfRange(Val(r.value))))

get_probability_greater_than(self, wait_time) ==
    LET r == get_probability_less_than(self, wait_time)
    IN  IF r.raised # "" \/ r.value = None THEN r
        ELSE Return(RatSub(Int2Rat(1), Val(r.value)))

get_histogram(self, bins) ==
    LET r == get_cumulative_distribution(self)
    IN  IF r.raised # "" \/ r.value = None THEN r
        ELSE LET cdf_domain == CdfDomain(Val(r.value))
                 cdf_range == CdfRange(Val(r.value))
                 cumulative(k) == ProbabilityLessThan(bins[k], cdf_domain, cdf_range)
             IN  Return([k \in 1..(IF Len(bins) = 0 THEN 0 ELSE Len(bins) - 1) |->
                            RatSub(cumulative(k + 1), cumulative(k))])

(***************************************************************************)
(* WaitTimeStats.get_sampled_waits                                         *)
(***************************************************************************)
\* lines 341-343
SampleTimeValues(self, sample_sec) ==
    NpArange(self.interval_start - (self.interval_start % sample_sec),
             self.interval_end, sample_sec)

\* lines 345-348 without the trailing nan, which sorts after every number
ArrivalTimeValues(self) ==
    IF self.end_wait_time # None
    THEN self.interval_time_values \o <<self.interval_end + Val(self.end_wait_time)>>
    ELSE self.interval_time_values

\* lines 350-354, one sample: None stands for nan (the index found is that of the nan)
SampledWait(self, sample_time) ==
    LET arrival_time_values == ArrivalTimeValues(self)
        next_arrival_index == SearchSortedLeft(arrival_time_values, sample_time)
    IN  IF next_arrival_index >= Len(arrival_time_values) THEN None
        ELSE Some(arrival_time_values[next_arrival_index + 1] - sample_time)

\* line 356: keep the waits that are not nan, in minutes
KeptWaits(self, samples) ==
    LET kept == SelectSeq(samples, LAMBDA t : SampledWait(self, t) # None)
    IN  [k \in 1..Len(kept) |-> Rat(Val(SampledWait(self, kept[k])), SecondsPerMinute)]

get_sampled_waits(self, sample_sec) ==
    IF self.is_empty THEN ReturnNone
    ELSE IF sample_sec = 0 THEN Raise("ZeroDivisionError")
    ELSE Return(KeptWaits(self, SampleTimeValues(self, sample_sec)))

(***************************************************************************)
(* Inputs of the statistics object.                                        *)
(***************************************************************************)
IsAscending(s) == \A i \in 1..(Len(s) - 1) : s[i] <= s[i + 1]

AscendingSeries ==
    {s \in UNION {[1..n -> 0..MaxTime] : n \in 0..MaxLen} : IsAscending(s)}

OptionalTimes == {None} \cup {Some(t) : t \in 0..MaxTime}

\* Scenario A and Scenario C of the specification, section 8
ScenarioA == <<<<0, 600, 1200>>, Some(0), Some(1800)>>
ScenarioC == <<<<100, 300>>, Some(0), Some(100)>>

StatsInputs ==
    (AscendingSeries \X OptionalTimes \X OptionalTimes) \cup {ScenarioA, ScenarioC}

DefaultSampleSec == 60

WaitInputs == {Rat(k, SecondsPerMinute) : k \in 0..(MaxTime + 1)}
QuantileInputs == {<<>>, <<Int2Rat(0)>>, <<Rat(1, 2)>>, <<Rat(1, 4), Rat(3, 4)>>, <<Int2Rat(1)>>}
PercentileInputs == {<<50>>, <<0, 100>>, <<25, 75>>}
BinInputs == {<<>>, <<Rat(0, SecondsPerMinute), Rat(2, SecondsPerMinute)>>,
              <<Rat(0, SecondsPerMinute), Rat(1, SecondsPerMinute),
                Rat(MaxTime, SecondsPerMinute)>>}
SampleSecInputs == (1..MaxStep) \cup {DefaultSampleSec}

(***************************************************************************)
(* The statistics object: get_stats builds it, then any query, any number  *)
(* of times.                                                               *)
(***************************************************************************)
CacheIdle ==
    /\ pc = "idle"
    /\ args = None
    /\ cache_path = None
    /\ response = None
    /\ files = <<>>
    /\ trace = <<>>
    /\ outcome = None
    /\ served = {}

\* get_stats (lines 11-12)
StatsInit ==
    /\ \E in \in StatsInputs :
        /\ time_values = in[1]
        /\ start_time = in[2]
        /\ end_time = in[3]
        /\ stats = WaitTimeStats(in[1], in[2], in[3])
    /\ call = [op |-> "__init__"]
    /\ result = IF Constructed(stats) THEN ReturnNone ELSE Raise(stats.raised)

Query(op, r) ==
    /\ Constructed(stats)
    /\ call' = op
    /\ result' = r
    /\ stats' = IF stats.is_empty THEN stats ELSE Memoized(stats)
    /\ UNCHANGED <<time_values, start_time, end_time>>
    /\ UNCHANGED cacheVars

GetAverage ==
    /\ Constructed(stats)
    /\ call' = [op |-> "get_average"]
    /\ result' = get_average(stats)
    /\ UNCHANGED <<time_values, start_time, end_time, stats>>
    /\ UNCHANGED cacheVars

GetCumulativeDistribution ==
    Query([op |-> "get_cumulative_distribution"], get_cumulative_distribution(stats))

\* the quantiles asked for are fixed ones, or the probability the last call returned
GetQuantiles ==
    \E quantiles \in QuantileInputs \cup
            (IF call.op = "get_probability_less_than" /\ result.value # None
             THEN {<<Val(result.value)>>} ELSE {}) :
        Query([op |-> "get_quantiles", arg |-> quantiles], get_quantiles(stats, quantiles))

GetPercentiles ==
    \E percentiles \in PercentileInputs :
        Query([op |-> "get_percentiles", arg |-> percentiles],
              get_percentiles(stats, percentiles))

GetHistogram ==
    \E bins \in BinInputs :
        Query([op |-> "get_histogram", arg |-> bins], get_histogram(stats, bins))

GetProbabilityLessThan ==
    \E wait_time \in WaitInputs :
        Query([op |-> "get_probability_less_than", arg |-> wait_time],
              get_probability_less_than(stats, wait_time))

GetProbabilityGreaterThan ==
    \E wait_time \in WaitInputs :
        Query([op |-> "get_probability_greater_than", arg |-> wait_time],
              get_probability_greater_than(stats, wait_time))

GetSampledWaits ==
    \E sample_sec \in SampleSecInputs :
        /\ Constructed(stats)
        /\ call' = [op |-> "get_sampled_waits", arg |-> sample_sec]
        /\ result' = get_sampled_waits(stats, sample_sec)
        /\ UNCHANGED <<time_values, start_time, end_time, stats>>
        /\ UNCHANGED cacheVars

Init == StatsInit /\ CacheIdle

Next ==
    \/ GetAverage
    \/ GetCumulativeDistribution
    \/ GetQuantiles
    \/ GetPercentiles
    \/ GetHistogram
    \/ GetProbabilityLessThan
    \/ GetProbabilityGreaterThan
    \/ GetSampledWaits

Spec == Init /\ [][Next]_vars

(***************************************************************************)
(* Part 2: retrieval of cached wait times.                                 *)
(*                                                                         *)
(* A Python str is a sequence of one-character strings; "LF" stands for    *)
(* the newline character.  Fixed pieces of the f-strings are single        *)
(* tokens.                                                                 *)
(***************************************************************************)
WordChars == {"s", "f", "v", "m", "1", "2", "_"}
LF == "LF"

\* what "$" allows: the end of the string, or just before a final newline
StripFinalNewline(str) ==
    IF Len(str) > 0 /\ Last(str) = LF THEN SubSeq(str, 1, Len(str) - 1) ELSE str

\* re.match('^[\w\-]+$', str) is not None
MatchesIdentifier(str) ==
    LET body == StripFinalNewline(str)
    IN  Len(body) > 0 /\ \A i \in 1..Len(body) : body[i] \in WordChars \cup {"-"}

\* re.match('^[\w\-\+]*$', str) is not None
MatchesTimeRange(str) ==
    LET body == StripFinalNewline(str)
    IN  \A i \in 1..Len(body) : body[i] \in WordChars \cup {"-", "+"}

\* str.replace(old, new) for a one-character old
StrReplace(str, old, new) ==
    LET piece(i) == IF str[i] = old THEN new ELSE <<str[i]>>
        F[i \in 0..Len(str)] == IF i = 0 THEN <<>> ELSE F[i - 1] \o piece(i)
    IN  F[Len(str)]

\* lines 417-421; start_time_str and end_time_str are a str or None
get_time_range_path(start_time_str, end_time_str) ==
    IF start_time_str = None /\ end_time_str = None THEN Return(<<>>)
    ELSE IF start_time_str = None \/ end_time_str = None THEN Raise("AttributeError")
    ELSE Return(<<"_">> \o StrReplace(Val(start_time_str), ":", <<>>)
                \o <<"_">> \o StrReplace(Val(end_time_str), ":", <<>>))

\* AgencyFault with the check left out
AgencyFaultNever(agency_id) == ""

\* lines 433-434, the check of agency_id
AgencyFault(agency_id) ==
    IF ~MatchesIdentifier(agency_id) THEN "Exception: Invalid agency" ELSE ""

\* lines 429-448; a is the record of the arguments, a.d the date as str(d) prints it
get_cache_path(a) ==
    LET time_range_path == get_time_range_path(a.start_time_str, a.end_time_str)
        date_str == a.d
    IN  IF time_range_path.raised # "" THEN time_range_path
        ELSE IF AgencyFault(a.agency_id) # "" THEN Raise(AgencyFault(a.agency_id))
        ELSE IF ~MatchesIdentifier(date_str) THEN Raise("Exception: Invalid date")
        ELSE IF ~MatchesIdentifier(a.version) THEN Raise("Exception: Invalid version")
        ELSE IF ~MatchesIdentifier(a.stat_id) THEN Raise("Exception: Invalid stat id")
        ELSE IF ~MatchesTimeRange(Val(time_range_path.value))
             THEN Raise("Exception: Invalid time range")
        ELSE Return(<<"DATA_DIR", "/wait-times_">> \o a.version \o <<"_">> \o a.agency_id
                    \o <<"/">> \o date_str \o <<"/wait-times_">> \o a.version \o <<"_">>
                    \o a.agency_id \o <<"_">> \o date_str \o <<"_">> \o a.stat_id
                    \o Val(time_range_path.value) \o <<".json">>)

\* lines 423-427; d.strftime("%Y/%m/%d") is str(d) with "/" for "-"
get_s3_path(a) ==
    LET time_range_path == Val(get_time_range_path(a.start_time_str, a.end_time_str).value)
        date_str == a.d
        date_path == StrReplace(a.d, "-", <<"/">>)
    IN  <<"wait-times/">> \o a.version \o <<"/">> \o a.agency_id \o <<"/">> \o date_path
        \o <<"/wait-times_">> \o a.version \o <<"_">> \o a.agency_id \o <<"_">> \o date_str
        \o <<"_">> \o a.stat_id \o time_range_path \o <<".json.gz">>

\* line 396
S3Url(a) == <<"http://", "S3_BUCKET", ".s3.amazonaws.com/">> \o get_s3_path(a)

\* json.loads: the two bodies of the model, one that parses and one that does not
JsonText == "{\"routes\": {}}"
NotJsonText == "<html>"
JsonLoads(text) == IF text = JsonText THEN Return([routes |-> <<>>]) ELSE Raise("JSONDecodeError")

\* lines 360-362
CachedWaitTimes(wait_times_data) == [wait_times_data |-> wait_times_data]

\* StatusFault without the last check, of every status that is not 200
StatusFaultNotFoundOnly(r) ==
    IF r.status_code = 404 THEN "FileNotFoundError: not found"
    ELSE IF r.status_code = 403 THEN "FileNotFoundError: not found or access denied"
    ELSE ""

\* lines 399-404: the exception a response's status raises, "" when none
StatusFault(r) ==
    IF r.status_code = 404 THEN "FileNotFoundError: not found"
    ELSE IF r.status_code = 403 THEN "FileNotFoundError: not found or access denied"
    ELSE IF r.status_code # 200 THEN "Exception: Error fetching"
    ELSE ""

AgencyIds == {<<"s", "f">>, <<"s", "/", "f">>, <<".", ".">>, <<>>, <<"s", "f", LF>>}
DateStrs == {<<"1", "-", "2">>, <<"1", "/", "2">>}
StatIds == {<<"m">>, <<"m", ".">>}
Versions == {<<"v", "1">>, <<"v", "/">>}
TimeRanges == {<<None, None>>,
               <<Some(<<"1", ":", "2">>), Some(<<"2", ":", "1">>)>>,
               <<Some(<<"1">>), None>>,
               <<Some(<<".", ".", "/">>), Some(<<"2">>)>>}

CallArgs ==
    {[agency_id |-> ag, d |-> d, stat_id |-> st, start_time_str |-> tr[1],
      end_time_str |-> tr[2], version |-> v] :
        ag \in AgencyIds, d \in DateStrs, st \in StatIds, tr \in TimeRanges, v \in Versions}

Responses ==
    {[status_code |-> 200, text |-> JsonText], [status_code |-> 200, text |-> NotJsonText],
     [status_code |-> 404, text |-> NotJsonText], [status_code |-> 403, text |-> NotJsonText],
     [status_code |-> 500, text |-> NotJsonText], [status_code |-> 500, text |-> JsonText]}

HasFile(path) == path \in DOMAIN files
WriteFile(path, text) ==
    [p \in DOMAIN files \cup {path} |-> IF p = path THEN text ELSE files[p]]

\* the data directory before the first call: empty, or holding one file that
\* something else left there and that does not parse
InitialFiles ==
    {<<>>} \cup
    {[p \in {Val(get_cache_path(a).value)} |-> NotJsonText] :
        a \in {b \in CallArgs : get_cache_path(b).raised = "" /\ b.start_time_str = None
                                /\ b.agency_id = <<"s", "f">>}}

StatsUnused ==
    /\ time_values = <<>>
    /\ start_time = None
    /\ end_time = None
    /\ stats = WaitTimeStats(<<>>, None, None)
    /\ call = [op |-> "__init__"]
    /\ result = ReturnNone

CacheInit ==
    /\ StatsUnused
    /\ pc = "idle"
    /\ args = None
    /\ cache_path = None
    /\ response = None
    /\ files \in InitialFiles
    /\ trace = <<>>
    /\ outcome = None
    /\ served = {}

\* a caller calls get_cached_wait_times (line 382)
Call ==
    /\ pc = "idle"
    /\ \E a \in CallArgs : args' = Some(a)
    /\ pc' = "get_cache_path"
    /\ cache_path' = None
    /\ response' = None
    /\ trace' = <<>>
    /\ outcome' = None
    /\ UNCHANGED <<files, served>>
    /\ UNCHANGED statsVars

\* line 384
GetCachePath ==
    /\ pc = "get_cache_path"
    /\ LET r == get_cache_path(Val(args))
       IN  IF r.raised # ""
           THEN /\ outcome' = Some(r)
                /\ pc' = "idle"
                /\ UNCHANGED cache_path
           ELSE /\ cache_path' = r.value
                /\ pc' = "open_cache"
                /\ UNCHANGED outcome
    /\ UNCHANGED <<args, response, files, trace, served>>
    /\ UNCHANGED statsVars

\* lines 386-391
OpenCache ==
    /\ pc = "open_cache"
    /\ trace' = Append(trace, [access |-> "open r", target |-> Val(cache_path)])
    /\ IF HasFile(Val(cache_path))
       THEN LET data == JsonLoads(files[Val(cache_path)])
            IN  /\ pc' = "idle"
                /\ IF data.raised # ""
                   THEN outcome' = Some(data) /\ UNCHANGED served
                   ELSE /\ outcome' = Some(Return(CachedWaitTimes(Val(data.value))))
                        /\ served' = served \cup args
       ELSE /\ pc' = "requests_get"
            /\ UNCHANGED <<outcome, served>>
    /\ UNCHANGED <<args, cache_path, response, files>>
    /\ UNCHANGED statsVars

\* lines 393-397: the request, answered in one of the ways of Responses
RequestsGet ==
    /\ pc = "requests_get"
    /\ trace' = Append(trace, [access |-> "GET", target |-> S3Url(Val(args))])
    /\ \E r \in Responses : response' = Some(r)
    /\ pc' = "check_response"
    /\ UNCHANGED <<args, cache_path, files, outcome, served>>
    /\ UNCHANGED statsVars

\* lines 399-406
CheckResponse ==
    /\ pc = "check_response"
    /\ LET r == Val(response)
       IN  IF StatusFault(r) # ""
           THEN outcome' = Some(Raise(StatusFault(r))) /\ pc' = "idle"
           ELSE IF JsonLoads(r.text).raised # ""
           THEN outcome' = Some(JsonLoads(r.text)) /\ pc' = "idle"
           ELSE pc' = "write_cache" /\ UNCHANGED outcome
    /\ UNCHANGED <<args, cache_path, response, files, trace, served>>
    /\ UNCHANGED statsVars

\* lines 408-415
WriteCache ==
    /\ pc = "write_cache"
    /\ trace' = Append(trace, [access |-> "open w", target |-> Val(cache_path)])
    /\ files' = WriteFile(Val(cache_path), Val(response).text)
    /\ outcome' = Some(Return(CachedWaitTimes(Val(JsonLoads(Val(response).text).value))))
    /\ served' = served \cup args
    /\ pc' = "idle"
    /\ UNCHANGED <<args, cache_path, response>>
    /\ UNCHANGED statsVars

CacheNext ==
    \/ Call
    \/ GetCachePath
    \/ OpenCache
    \/ RequestsGet
    \/ CheckResponse
    \/ WriteCache

CacheSpec == CacheInit /\ [][CacheNext]_vars


(***************************************************************************)
(* Reference definitions the claims compare the code against: the true     *)
(* wait of a person who shows up at instant t, from the full series.       *)
(***************************************************************************)
HasArrivalFrom(tv, t) == \E i \in 1..Len(tv) : tv[i] >= t

\* first arrival of the full series at or after t
NextArrival(tv, t) ==
    CHOOSE a \in {tv[i] : i \in 1..Len(tv)} :
        a >= t /\ \A j \in 1..Len(tv) : tv[j] >= t => a <= tv[j]

\* Twice the integral over [lo, hi) of NextArrival(t) - t.  On the cell (k, k+1)
\* the wait runs linearly from NextArrival(k+1) - k down to NextArrival(k+1) - k - 1.
RECURSIVE TwiceWaitIntegral(_, _, _)
TwiceWaitIntegral(tv, lo, hi) ==
    IF hi <= lo THEN 0
    ELSE IF hi = lo + 1 THEN 2 * (NextArrival(tv, lo + 1) - lo) - 1
    ELSE LET mid == (lo + hi) \div 2
         IN  TwiceWaitIntegral(tv, lo, mid) + TwiceWaitIntegral(tv, mid, hi)

\* Seconds of [lo, hi) whose wait is less than w (w a whole number of seconds)
SecondsWaitingLessThan(tv, lo, hi, w) ==
    Cardinality({k \in lo..(hi - 1) : NextArrival(tv, k + 1) - k <= w})

IsScenario(in) == <<time_values, start_time, end_time>> = in
Called(op) == Constructed(stats) /\ call.op = op
Returned == result.raised = "" /\ result.value # None
IntervalElapsed == stats.interval_end - stats.interval_start

(***************************************************************************)
(* C1                                                                      *)
(***************************************************************************)
InsideRange ==
    /\ time_values # <<>>
    /\ start_time # None => NpMin(time_values) <= Val(start_time)
                            /\ Val(start_time) <= NpMax(time_values)
    /\ end_time # None => NpMin(time_values) <= Val(end_time)
                          /\ Val(end_time) <= NpMax(time_values)
    /\ (start_time # None /\ end_time # None) => Val(start_time) <= Val(end_time)

WellFormedCdf(points) ==
    /\ \A i \in 1..(Len(points) - 1) :
        /\ RatLE(points[i][1], points[i + 1][1])
        /\ RatLE(points[i][2], points[i + 1][2])
    /\ points[1][2] = Int2Rat(0)
    /\ Last(points)[2] = Int2Rat(1)

\* C1: for a nonempty ascending series and an interval inside its range, no call
\* raises the 'Invalid cumulative distribution' AssertionError, and the CDF that
\* get_cumulative_distribution returns is non-decreasing in wait time and in
\* probability, starts at probability 0 and ends at probability 1.
C1_CdfWellFormed ==
    InsideRange =>
        /\ Constructed(stats)
        /\ result.raised # "AssertionError"
        /\ (Called("get_cumulative_distribution") /\ Returned)
               => WellFormedCdf(Val(result.value))

C1_Witness ==
    /\ InsideRange
    /\ start_time # None /\ end_time # None
    /\ Called("get_cumulative_distribution") /\ Returned
    /\ Len(Val(result.value)) >= 3
    /\ stats.end_elapsed_time > 0

(***************************************************************************)
(* C2                                                                      *)
(***************************************************************************)
NoData ==
    \/ time_values = <<>>
    \/ stats.is_empty
    \/ WaitTimeValues(stats) = None

QueryOps ==
    {"get_average", "get_cumulative_distribution", "get_quantiles", "get_percentiles",
     "get_histogram", "get_probability_less_than", "get_probability_greater_than",
     "get_sampled_waits"}

\* C2: construction never raises, whatever the series and the bounds; and when
\* the series is empty, the interval has zero width or no CDF can be built,
\* every query returns None and raises nothing.
C2_NoDataNoFault ==
    /\ Constructed(stats)
    /\ call.op = "__init__" => result.raised = ""
    /\ (NoData /\ call.op \in QueryOps) => result = ReturnNone

C2_Witness ==
    /\ time_values # <<>>
    /\ start_time # None /\ end_time # None /\ Val(start_time) > Val(end_time)
    /\ Constructed(stats) /\ NoData
    /\ call.op = "get_sampled_waits"
    /\ result = ReturnNone

(***************************************************************************)
(* C3                                                                      *)
(***************************************************************************)
\* the CDF of the object, whether memoized already or not
CdfOf(self) == Val(get_cumulative_distribution(self).value)

StrictlyInside(points, w) == RatLT(points[1][1], w) /\ RatLT(w, Last(points)[1])

\* the wait times w of the inputs whose probability get_probability_less_than
\* returns as q
WaitsWithProbability(q) ==
    {w \in WaitInputs :
        /\ StrictlyInside(CdfOf(stats), w)
        /\ get_probability_less_than(stats, w) = Return(q)}

\* w lies on a segment of the CDF where the probability grows: the last point
\* below w has a smaller probability than the first point at or above w
OnIncreasingSegment(points, w) ==
    LET i == SearchSortedRat(CdfDomain(points), w)
    IN  RatLT(points[i][2], points[i + 1][2])

\* the smallest wait time of the CDF whose probability is q or more
LeastWaitReaching(points, q) ==
    points[SearchSortedRat(CdfRange(points), q) + 1][1]

RoundTripCall ==
    /\ Called("get_quantiles") /\ Returned
    /\ Len(call.arg) = 1

\* C3 as stated: get_quantiles([get_probability_less_than(w)]) returns w for
\* every w strictly between the least and the greatest wait time of the CDF,
\* flat segments included.
C3_RoundTripEverywhere ==
    RoundTripCall =>
        \A w \in WaitsWithProbability(call.arg[1]) : Val(result.value)[1] = w

\* C3 amended: the round trip returns w when w lies on a segment where the
\* cumulative probability grows; on a segment where it is constant the call
\* returns the left end of that segment, the least wait time that reaches the
\* probability, which is less than w.
C3_RoundTripWhereIncreasing ==
    RoundTripCall =>
        \A w \in WaitsWithProbability(call.arg[1]) :
            IF OnIncreasingSegment(CdfOf(stats), w)
            THEN Val(result.value)[1] = w
            ELSE /\ Val(result.value)[1] = LeastWaitReaching(CdfOf(stats), call.arg[1])
                 /\ RatLT(Val(result.value)[1], w)

\* a round trip through the inside of a growing segment, at a probability
\* strictly between 0 and 1
C3_Witness ==
    /\ RoundTripCall
    /\ RatLT(Int2Rat(0), call.arg[1]) /\ RatLT(call.arg[1], Int2Rat(1))
    /\ \E w \in WaitsWithProbability(call.arg[1]) :
        /\ OnIncreasingSegment(CdfOf(stats), w)
        /\ \A i \in 1..Len(CdfOf(stats)) : CdfOf(stats)[i][1] # w
        /\ Val(result.value)[1] = w

(***************************************************************************)
(* C4                                                                      *)
(***************************************************************************)
\* C4 as stated: for the series [100, 300] with start_time 0 and end_time 100,
\* end_wait_time is 200, end_elapsed_time is 0 and the CDF is the point mass
\* at 200/60 minutes.
C4_ScenarioCPointMass ==
    IsScenario(ScenarioC) =>
        /\ Constructed(stats)
        /\ stats.end_wait_time = Some(200)
        /\ stats.end_elapsed_time = 0
        /\ Called("get_cumulative_distribution") =>
            /\ Returned
            /\ Val(result.value)[1] = <<Rat(200, SecondsPerMinute), Int2Rat(0)>>
            /\ Last(Val(result.value)) = <<Rat(200, SecondsPerMinute), Int2Rat(1)>>

\* C4 amended: for the series [100, 300] with start_time 0 and end_time 100 the
\* interval is clipped to [100, 100]: end_wait_time is 0, end_elapsed_time is
\* 0, the object is empty and get_cumulative_distribution returns None.
C4_ScenarioCEmpty ==
    IsScenario(ScenarioC) =>
        /\ Constructed(stats)
        /\ stats.interval_start = 100
        /\ stats.interval_end = 100
        /\ stats.end_wait_time = Some(0)
        /\ stats.end_elapsed_time = 0
        /\ stats.is_empty
        /\ Called("get_cumulative_distribution") => result = ReturnNone

C4_Witness ==
    /\ IsScenario(ScenarioC)
    /\ Called("get_cumulative_distribution")
    /\ result = ReturnNone

(***************************************************************************)
(* C5                                                                      *)
(***************************************************************************)
\* C5 as stated: after construction from a nonempty series, if end_wait_time is
\* undefined then end_elapsed_time is 0 and interval_end is the last arrival in
\* the interval; Scenario A ends with the interval [0, 1200].
C5_TailEndsAtLastArrival ==
    /\ Constructed(stats)
    /\ (time_values # <<>> /\ stats.end_wait_time = None) =>
        /\ stats.end_elapsed_time = 0
        /\ stats.interval_time_values # <<>>
        /\ stats.interval_end = Last(stats.interval_time_values)
    /\ IsScenario(ScenarioA) => stats.interval_start = 0 /\ stats.interval_end = 1200

\* C5 amended: after construction from a nonempty series, end_wait_time is
\* undefined only when start_time lies after the last arrival; then
\* end_elapsed_time is 0, no arrival is in the interval, and interval_end
\* equals interval_start (= start_time), so the object is empty.  Scenario A
\* ends with the interval [0, 1200], the arrival at 1200 being the next
\* arrival (end_wait_time 0), and construction raises nothing.
C5_TailUndefinedOnlyPastLastArrival ==
    /\ Constructed(stats)
    /\ (time_values # <<>> /\ stats.end_wait_time = None) =>
        /\ start_time # None /\ Val(start_time) > NpMax(time_values)
        /\ stats.end_elapsed_time = 0
        /\ stats.interval_time_values = <<>>
        /\ stats.interval_end = stats.interval_start
        /\ stats.interval_start = Val(start_time)
        /\ stats.is_empty
    /\ IsScenario(ScenarioA) =>
        /\ stats.interval_start = 0 /\ stats.interval_end = 1200
        /\ stats.end_wait_time = Some(0)
        /\ stats.end_elapsed_time = 600

C5_Witness ==
    /\ Constructed(stats)
    /\ time_values # <<>>
    /\ stats.end_wait_time = None
    /\ call.op = "__init__"

(***************************************************************************)
(* C8                                                                      *)
(***************************************************************************)
\* twice the closed form: sum(h^2) + 2*end_wait_time*end_elapsed_time
\* + end_elapsed_time^2
TwiceClosedForm(self) ==
    SumSeq(Squares(self.interval_headways))
    + 2 * Val(self.end_wait_time) * self.end_elapsed_time
    + self.end_elapsed_time * self.end_elapsed_time

\* C8: for a non-empty object, get_average() * 60 * (interval_end -
\* interval_start) is the integral over the interval of the wait for the first
\* arrival of the full series at or after t, which is the closed form
\* sum(h^2)/2 + end_wait_time*end_elapsed_time + end_elapsed_time^2/2; for
\* Scenario A it is exactly 5 minutes.
C8_AverageIsMeanWait ==
    (Called("get_average") /\ ~stats.is_empty) =>
        /\ Returned
        /\ RatMul(Val(result.value), Int2Rat(2 * SecondsPerMinute * IntervalElapsed))
               = Int2Rat(TwiceWaitIntegral(time_values, stats.interval_start,
                                           stats.interval_end))
        /\ TwiceWaitIntegral(time_values, stats.interval_start, stats.interval_end)
               = TwiceClosedForm(stats)
        /\ IsScenario(ScenarioA) => Val(result.value) = Int2Rat(5)

C8_Witness ==
    /\ Called("get_average") /\ Returned
    /\ \E i \in 1..Len(stats.interval_headways) : stats.interval_headways[i] > 0
    /\ Val(stats.end_wait_time) > 0
    /\ stats.end_elapsed_time > 0

(***************************************************************************)
(* C9                                                                      *)
(***************************************************************************)
\* the wait time of a CDF point in whole seconds
PointSeconds(point) == (point[1][1] * SecondsPerMinute) \div point[1][2]

\* sum over the headways h of min(w, h), plus
\* min(max(w - end_wait_time, 0), end_elapsed_time)
ClippedSeconds(self, w) ==
    SumSeq([i \in 1..Len(self.interval_headways) |-> Min2(w, self.interval_headways[i])])
    + (IF self.end_wait_time = None THEN 0
       ELSE Min2(Max2(w - Val(self.end_wait_time), 0), self.end_elapsed_time))

\* C9: get_cumulative_distribution of a non-empty object returns a CDF, and
\* every point (w/60, p) of it has p * (interval_end - interval_start)
\* equal to the number of seconds of the interval whose true wait is less than
\* w, which is the sum over the headways h of min(w, h) plus
\* min(max(w - end_wait_time, 0), end_elapsed_time).
C9_CdfCountsSeconds ==
    (Called("get_cumulative_distribution") /\ ~stats.is_empty) =>
        /\ Returned
        /\ \A i \in 1..Len(Val(result.value)) :
            LET point == Val(result.value)[i]
                w == PointSeconds(point)
            IN  /\ point[1] = Rat(w, SecondsPerMinute)
                /\ RatMul(point[2], Int2Rat(IntervalElapsed))
                       = Int2Rat(SecondsWaitingLessThan(time_values, stats.interval_start,
                                                        stats.interval_end, w))
                /\ RatMul(point[2], Int2Rat(IntervalElapsed))
                       = Int2Rat(ClippedSeconds(stats, w))

\* the tail breakpoint end_wait_time coincides with a headway
C9_Witness ==
    /\ Called("get_cumulative_distribution") /\ Returned
    /\ \E i \in 1..Len(stats.interval_headways) :
        /\ stats.interval_headways[i] = Val(stats.end_wait_time)
        /\ stats.interval_headways[i] > 0
    /\ Len(Val(result.value)) >= 3

(***************************************************************************)
(* C10                                                                     *)
(***************************************************************************)
\* C10: every wait get_sampled_waits(s) returns is the wait of a sample instant
\* t that is a multiple of s and lies in [interval_start, interval_end): the
\* first arrival of the series at or after t, minus t, in minutes; and the
\* only samples dropped are those no arrival follows.
C10_SamplesInsideInterval ==
    (Called("get_sampled_waits") /\ Returned) =>
        LET samples == SampleTimeValues(stats, call.arg)
            inside == {t \in stats.interval_start..(stats.interval_end - 1) :
                          t % call.arg = 0}
        IN  /\ \A k \in 1..Len(samples) :
                  SampledWait(stats, samples[k]) # None =>
                      /\ samples[k] \in inside
                      /\ SampledWait(stats, samples[k])
                             = Some(NextArrival(time_values, samples[k]) - samples[k])
            /\ \A t \in inside :
                  /\ \E k \in 1..Len(samples) : samples[k] = t
                  /\ SampledWait(stats, t) = None => ~HasArrivalFrom(time_values, t)
            /\ Len(Val(result.value))
                   = Cardinality({k \in 1..Len(samples) : SampledWait(stats, samples[k]) # None})
            /\ \A k \in 1..Len(Val(result.value)) : RatLE(Int2Rat(0), Val(result.value)[k])

(***************************************************************************)
(* C6                                                                      *)
(***************************************************************************)
TimeRangeBuilt(a) == get_time_range_path(a.start_time_str, a.end_time_str).raised = ""

\* some identifier of the call fails its pattern
Malformed(a) ==
    \/ ~MatchesIdentifier(a.agency_id)
    \/ ~MatchesIdentifier(a.d)
    \/ ~MatchesIdentifier(a.version)
    \/ ~MatchesIdentifier(a.stat_id)
    \/ /\ TimeRangeBuilt(a)
       /\ ~MatchesTimeRange(Val(get_time_range_path(a.start_time_str,
                                                    a.end_time_str).value))

InvalidArgumentFaults ==
    {"Exception: Invalid agency", "Exception: Invalid date", "Exception: Invalid version",
     "Exception: Invalid stat id", "Exception: Invalid time range"}

\* C6: a call whose agency_id, date string, version, stat_id or time-range
\* suffix fails its pattern ends by raising, and opens no file and issues no
\* request before it does; the exception is the "Invalid ..." one whenever the
\* time-range suffix could be formed (with exactly one of start_time_str and
\* end_time_str None, forming it raises AttributeError first).
C6_MalformedFailsBeforeAccess ==
    (args # None /\ Malformed(Val(args))) =>
        /\ trace = <<>>
        /\ pc \in {"get_cache_path", "idle"}
        /\ pc = "idle" =>
            /\ outcome # None
            /\ Val(outcome).raised # ""
            /\ TimeRangeBuilt(Val(args)) => Val(outcome).raised \in InvalidArgumentFaults

C6_Witness ==
    /\ args # None
    /\ \E i \in 1..Len(Val(args).agency_id) : Val(args).agency_id[i] = "/"
    /\ pc = "idle"
    /\ outcome = Some(Raise("Exception: Invalid agency"))
    /\ trace = <<>>

(***************************************************************************)
(* C7                                                                      *)
(***************************************************************************)
Requests(t) == Cardinality({i \in 1..Len(t) : t[i].access = "GET"})

NotFoundFaults ==
    {"FileNotFoundError: not found", "FileNotFoundError: not found or access denied"}

\* C7: every step of every call keeps the cache-then-fetch protocol:
\*  - a request is issued only right after the cache file of the call was
\*    looked for and found missing;
\*  - the data directory changes only by writing the call's cache file with the
\*    body of a response of status 200 that parsed, and the call then returns;
\*    a 404 or a 403 raises FileNotFoundError, any other status but 200 raises
\*    the fetch error, and a call that raises leaves the directory unchanged;
\*  - a call with arguments for which a call has returned before is served from
\*    the cache file, with no request.
C7_CacheThenFetch ==
    [][ /\ Requests(trace') > Requests(trace) =>
            /\ ~HasFile(Val(cache_path))
            /\ trace = <<[access |-> "open r", target |-> Val(cache_path)]>>
        /\ files' # files =>
            /\ response # None
            /\ Val(response).status_code = 200
            /\ JsonLoads(Val(response).text).raised = ""
            /\ files' = WriteFile(Val(cache_path), Val(response).text)
            /\ Requests(trace) = 1
            /\ pc' = "idle" /\ Val(outcome').raised = ""
        /\ (pc # "idle" /\ pc' = "idle" /\ Val(outcome').raised # "") => files' = files
        /\ (pc = "check_response" /\ Val(response).status_code \in {404, 403}) =>
            /\ outcome' # None
            /\ Val(outcome').raised \in NotFoundFaults
            /\ files' = files
        /\ (pc = "check_response" /\ Val(response).status_code \notin {200, 404, 403}) =>
            /\ outcome' # None
            /\ Val(outcome').raised = "Exception: Error fetching"
            /\ files' = files
        /\ (pc = "open_cache" /\ args \subseteq served) =>
            /\ pc' = "idle"
            /\ outcome' # None
            /\ Val(outcome').raised = ""
            /\ Requests(trace') = 0
            /\ files' = files
      ]_vars

\* a call served from the cache file that an earlier call fetched
C7_Witness ==
    /\ pc = "idle"
    /\ args # None /\ args \subseteq served
    /\ outcome # None /\ Val(outcome).raised = ""
    /\ trace = <<[access |-> "open r", target |-> Val(cache_path)]>>
    /\ HasFile(Val(cache_path))

=============================================================================
